---- MODULE Spec2Model ----
(***************************************************************************)
(* State-machine model of the melody generator (src/src/test.py), the     *)
(* producer/consumer threads (src/src/main.py) and the grid player        *)
(* (src/src/player.py).                                                   *)
(*                                                                         *)
(* Numbers.  Probabilities are percentages (0.05 is 5, 1.0 is 100); one   *)
(* output of random.random() is a percentage u drawn from UValues.        *)
(* Weights are exact rationals scaled by one common positive factor       *)
(* (WeightScale), which leaves random.choices' selection unchanged.       *)
(* pnoise1 values and trend_strength are tenths.                          *)
(***************************************************************************)
EXTENDS Integers, Sequences, FiniteSets, TLC

VARIABLES
    gen,        \* [Inst -> fields of the MelodicGenerator object, or NoGen]
    cur,        \* the instance whose method is running
    pc,         \* position in generate_phrase_grid
    grid,       \* local: grid
    prev_note,  \* local: prev_note (and note, once chosen)
    step,       \* local: step of the outer for loop
    j,          \* local: j of the sustain loop
    sustain_run,\* local: sustain_run
    phrases,    \* [Inst -> number of grids the instance has returned]
    returned,   \* [Inst -> {the grid the instance's last call returned}, {}
                \* before it returns]
    advances,   \* history: number of completed _next_chord calls
    pnoise,     \* the values of pnoise1(i * 0.2), in tenths
    rng,        \* state of the module-level random generator: seed and position
    tape,       \* [seed -> outputs of that seed's stream revealed so far]
    play_pc,    \* position in play_phrase_from_grid
    play_grid,  \* its argument grid
    play_i,     \* local: i
    play_j,     \* local: j
    play_dur,   \* local: dur, in units of step_duration
    events,     \* what the call has sent to the MIDI output and slept, in order
    sounding,   \* the notes switched on and not yet off
    melody_queue,   \* main.melody_queue: the phrases put and not yet got
    stop_event,     \* main.stop_event
    gen_pc,     \* position of generator_thread
    gen_phrase, \* its local phrase
    player_pc,  \* position of player_thread
    main_pc     \* position of the main thread

genVars == <<gen, cur, pc, grid, prev_note, step, j, sustain_run, phrases,
             returned, advances, pnoise>>
rngVars == <<rng, tape>>
playVars == <<play_pc, play_grid, play_i, play_j, play_dur, events, sounding>>
mainVars == <<melody_queue, stop_event, gen_pc, gen_phrase, player_pc, main_pc>>
vars == <<gen, cur, pc, grid, prev_note, step, j, sustain_run, phrases,
          returned, advances, pnoise, rng, tape,
          play_pc, play_grid, play_i, play_j, play_dur, events, sounding,
          melody_queue, stop_event, gen_pc, gen_phrase, player_pc, main_pc>>

----------------------------------------------------------------------------
\* Bounds of the model.

\* Largest total_steps of a configuration.
MaxSteps == 4
\* Number of generate_phrase_grid calls followed on one instance.
MaxPhrases == 2

----------------------------------------------------------------------------
\* Constants of the program.

\* The rest sentinel.
Rest == -1

None == "None"
\* No object yet.
NoGen == [mode |-> "NoGen"]

Inst == {"A", "B", "C"}

chord_library ==
    [tonic |-> <<"C", "Am", "Em">>,
     subdominant |-> <<"F", "Dm">>,
     dominant |-> <<"G", "G7", "Bdim">>]

chord_tones ==
    [C |-> <<60, 64, 67>>, Am |-> <<57, 60, 64>>, Em |-> <<52, 55, 59>>,
     F |-> <<53, 57, 60>>, Dm |-> <<50, 53, 57>>,
     G |-> <<55, 59, 62>>, G7 |-> <<55, 59, 62, 65>>, Bdim |-> <<59, 62, 65>>]

chord_progression_rules_DominantStays ==
    [tonic |-> <<"tonic", "subdominant", "subdominant", "dominant">>,
     subdominant |-> <<"subdominant", "dominant", "tonic">>,
     dominant |-> <<"tonic", "dominant", "subdominant">>]

chord_progression_rules ==
    [tonic |-> <<"tonic", "subdominant", "subdominant", "dominant">>,
     subdominant |-> <<"subdominant", "dominant", "tonic">>,
     dominant |-> <<"tonic", "tonic", "subdominant">>]

Functions == {"tonic", "subdominant", "dominant"}

MAJOR_INTERVALS == {0, 2, 4, 5, 7, 9, 11}
MINOR_INTERVALS == {0, 2, 3, 5, 7, 8, 10}

default_sustain_probs == <<96, 95, 94, 92, 90, 88, 73, 60>>

----------------------------------------------------------------------------
\* Arithmetic helpers.

Abs(x) == IF x < 0 THEN -x ELSE x

Max(a, b) == IF a >= b THEN a ELSE b

RECURSIVE SumSeq(_)
SumSeq(s) == IF s = <<>> THEN 0 ELSE Head(s) + SumSeq(Tail(s))

\* Python's round() of the rational num/den (den > 0): to nearest, ties to even.
RoundHalfEven(num, den) ==
    LET fl == num \div den
        r == num - fl * den
    IN  IF 2 * r < den THEN fl
        ELSE IF 2 * r > den THEN fl + 1
        ELSE IF fl % 2 = 0 THEN fl ELSE fl + 1

RECURSIVE SortedSeq(_)
SortedSeq(S) ==
    IF S = {} THEN <<>>
    ELSE LET m == CHOOSE x \in S : \A y \in S : x <= y
         IN  <<m>> \o SortedSeq(S \ {m})

----------------------------------------------------------------------------
\* The random module.  One output of the generator is a percentage u.

UValues == {0, 35, 70, 99}

\* The seeds followed (opaque values).
Seeds == {"seed1"}

\* random.random() < p, p a percentage times pden (rest_prob * 0.2 is 2p/10).
Below(u, pnum, pden) == u * pden < pnum

\* random.choice(seq): a uniform index.
Choice(seq, u) == seq[((u * Len(seq)) \div 100) + 1]

\* random.choices(population, weights, k=1)[0]: bisect of u * total in the
\* cumulative weights, hi = n - 1.
Choices(population, weights, u) ==
    LET n == Len(population)
        total == SumSeq(weights)
        cum(i) == SumSeq(SubSeq(weights, 1, i))
        hits == {i \in 1..(n - 1) : u * total < 100 * cum(i)}
    IN  IF hits = {} THEN population[n]
        ELSE population[CHOOSE i \in hits : \A k \in hits : i <= k]

\* The module-level generator as the interpreter starts it: seeded from the
\* system's entropy, so its outputs are free.
Unseeded == [seed |-> None, pos |-> 0]

\* random.seed(seed) when seed is not None (lines 63-64).
SeedRandom_Never(state, seed) == state

SeedRandom(state, seed) ==
    IF seed # None THEN [seed |-> seed, pos |-> 0] ELSE state

\* The outputs us are the next outputs of the generator in state st: free when
\* the generator was never seeded, else those of the seed's stream, of which
\* tp holds the outputs revealed so far.
StreamAllows(tp, st, us) ==
    st.seed # None =>
        \A i \in 1..Len(us) :
            st.pos + i <= Len(tp[st.seed]) => tp[st.seed][st.pos + i] = us[i]

StreamAfter(tp, st, us) ==
    IF st.seed = None THEN tp
    ELSE [tp EXCEPT ![st.seed] =
            IF st.pos + Len(us) <= Len(@) THEN @
            ELSE SubSeq(@, 1, st.pos) \o us]

Advance(st, n) ==
    IF st.seed = None THEN st ELSE [st EXCEPT !.pos = @ + n]

\* Consume the outputs us from the module-level generator.
Draw(us) ==
    /\ StreamAllows(tape, rng, us)
    /\ tape' = StreamAfter(tape, rng, us)
    /\ rng' = Advance(rng, Len(us))

----------------------------------------------------------------------------
\* MelodicGenerator.

Intervals(mode) == IF mode = "major" THEN MAJOR_INTERVALS ELSE MINOR_INTERVALS

\* _build_global_scale
BuildGlobalScale(mode, base_note) ==
    SortedSeq({i \in (base_note - 24)..(base_note + 24) :
                  ((i - base_note) % 12) \in Intervals(mode)})

\* _is_chord_tone
IsChordTone(note, chord_notes) ==
    (note % 12) \in {chord_notes[k] % 12 : k \in 1..Len(chord_notes)}

\* The configurations explored.
ModeSet == {"major", "minor"}
BaseSet == {60}
StepsSet == {MaxSteps - 1, MaxSteps}
BarSet == {2, 4}
JumpSet == {-1, 0, 2}
RestSet == {5, 100}

Configs ==
    [mode : ModeSet, base_note : BaseSet, total_steps : StepsSet,
     steps_per_bar : BarSet, max_span_semitones : {12},
     max_step_jump : JumpSet, sustain_probs : {default_sustain_probs},
     rest_prob : RestSet, trend_strength : {5}, chord_change_every : {2}]

\* pnoise1(i * 0.2) for the bars i of a phrase: gradient noise is 0 at the
\* integer 0, and some value of NoiseSet elsewhere.
NoiseSet == {0, 10}
NoiseCurves ==
    {f \in [0..((MaxSteps \div 2) - 1) -> NoiseSet] : f[0] = 0}

\* __init__: the object after construction with configuration c, the first
\* chord drawn with u.  (seed is the constructor's argument, kept for the
\* properties; the object does not store it.)
NewGenerator(c, seed, u) ==
    [seed |-> seed, mode |-> c.mode, base_note |-> c.base_note, total_steps |-> c.total_steps,
     steps_per_bar |-> c.steps_per_bar,
     max_span_semitones |-> c.max_span_semitones,
     max_step_jump |-> c.max_step_jump, sustain_probs |-> c.sustain_probs,
     rest_prob |-> c.rest_prob, trend_strength |-> c.trend_strength,
     chord_change_every |-> c.chord_change_every,
     current_function |-> "tonic",
     current_chord |-> Choice(chord_library["tonic"], u),
     global_scale |-> BuildGlobalScale(c.mode, c.base_note)]

self == gen[cur]

Bars == Max(1, self.total_steps \div self.steps_per_bar)

\* noise_scaled[bar_idx], as the rational <<numerator, 100>>.
NoiseScaledNum(bar_idx) ==
    pnoise[bar_idx] * self.trend_strength * self.max_span_semitones

TargetPitch(bar_idx) ==
    RoundHalfEven(self.base_note * 100 + NoiseScaledNum(bar_idx), 100)

IsStrongBeat(s) == ((s % self.steps_per_bar) % 4) = 0

\* Weight of candidate n (lines 160-192), times WeightScale.
WeightScale == (20 * 33 * 23) * 10 * 5
DistTerm(dist) == (20 * 33 * 23) \div (20 + 13 * dist)
BeatTerm(is_strong_beat, is_ct) ==
    IF is_strong_beat THEN (IF is_ct THEN 50 ELSE 1)
    ELSE (IF is_ct THEN 15 ELSE 8)
TrendTerm(n, target_pitch) == IF Abs(n - target_pitch) < 5 THEN 6 ELSE 5
CadenceTerm(n, pos_in_bar) ==
    IF pos_in_bar = self.steps_per_bar - 1 /\ n % 12 = self.base_note % 12
    THEN 2 ELSE 1

Weight(n, s) ==
    DistTerm(Abs(n - prev_note))
    * BeatTerm(IsStrongBeat(s), IsChordTone(n, chord_tones[self.current_chord]))
    * TrendTerm(n, TargetPitch(s \div self.steps_per_bar))
    * CadenceTerm(n, s % self.steps_per_bar)

\* The candidate pool (lines 149-156).
InJump_OneFurther(n) == Abs(n - prev_note) <= self.max_step_jump + 1

InJump(n) == Abs(n - prev_note) <= self.max_step_jump

Candidates_Chromatic ==
    LET near == SelectSeq(SortedSeq((self.base_note - 24)..(self.base_note + 24)),
                          InJump)
    IN  IF near = <<>> THEN <<prev_note>> ELSE near

Candidates ==
    LET near == SelectSeq(self.global_scale, InJump)
    IN  IF near = <<>> THEN <<prev_note>> ELSE near

\* The note chosen with output u (lines 195-199).
ChooseNote(u) ==
    LET candidates == Candidates
        weights == [k \in 1..Len(candidates) |-> Weight(candidates[k], step)]
    IN  IF SumSeq(weights) <= 0 THEN Choice(candidates, u)
        ELSE Choices(candidates, weights, u)

\* _next_chord: the object after the call, drawn with uf and uc.
NextChord(g, uf, uc) ==
    LET next_func == Choice(chord_progression_rules[g.current_function], uf)
    IN  [g EXCEPT !.current_function = next_func,
                  !.current_chord = Choice(chord_library[next_func], uc)]

\* sustain_probs[prob_idx] if in the table, else 0.5
PSame(prob_idx) ==
    IF prob_idx < Len(self.sustain_probs)
    THEN self.sustain_probs[prob_idx + 1] ELSE 50

----------------------------------------------------------------------------
\* generate_phrase_grid, one action per stretch between random draws.

\* Line 114: [-1] * n
EmptyGrid_OneShort(n) == [k \in 1..(n - 1) |-> Rest]

EmptyGrid(n) == [k \in 1..n |-> Rest]

\* Lines 114-121: the call starts.
BeginPhrase ==
    /\ pc \in {"idle", "done"}
    /\ phrases[cur] < MaxPhrases
    /\ grid' = EmptyGrid(self.total_steps)
    /\ prev_note' = self.base_note
    /\ step' = 0
    /\ pc' = "loop"
    /\ returned' = [returned EXCEPT ![cur] = {}]
    /\ UNCHANGED <<gen, cur, j, sustain_run, phrases, advances, pnoise, rng,
                   tape>>
    /\ UNCHANGED <<playVars, mainVars>>

\* Line 130: noise_scaled[bar_idx] is out of range, IndexError leaves the call.
IndexError ==
    /\ pc = "loop"
    /\ step < self.total_steps
    /\ step \div self.steps_per_bar >= Bars
    /\ pc' = "crashed"
    /\ UNCHANGED <<gen, cur, grid, prev_note, step, j, sustain_run, phrases,
                   returned, advances, pnoise, rng, tape>>
    /\ UNCHANGED <<playVars, mainVars>>

\* Lines 134-135: the chord changes on this step.
ChangeChord(uf, uc) ==
    /\ pc = "loop"
    /\ step < self.total_steps
    /\ step \div self.steps_per_bar < Bars
    /\ step % self.chord_change_every = 0 /\ step # 0
    /\ Draw(<<uf, uc>>)
    /\ gen' = [gen EXCEPT ![cur] = NextChord(@, uf, uc)]
    /\ advances' = advances + 1
    /\ pc' = "rest"
    /\ UNCHANGED <<cur, grid, prev_note, step, j, sustain_run, phrases,
                   returned, pnoise>>
    /\ UNCHANGED <<playVars, mainVars>>

\* Lines 138-139: the chord stays.
KeepChord ==
    /\ pc = "loop"
    /\ step < self.total_steps
    /\ step \div self.steps_per_bar < Bars
    /\ ~(step % self.chord_change_every = 0 /\ step # 0)
    /\ pc' = "rest"
    /\ UNCHANGED <<gen, cur, grid, prev_note, step, j, sustain_run, phrases,
                   returned, advances, pnoise, rng, tape>>
    /\ UNCHANGED <<playVars, mainVars>>

\* Lines 142-143: the draw u makes this step a rest (rest_prob * 0.2 on a
\* strong beat).
RestDrawn_EveryBeatScaled(u) == Below(u, self.rest_prob * 2, 10)

RestDrawn(u) ==
    IF IsStrongBeat(step) THEN Below(u, self.rest_prob * 2, 10)
    ELSE Below(u, self.rest_prob, 1)

\* Lines 142-145: the step is a rest.
RestStep(u) ==
    /\ pc = "rest"
    /\ Draw(<<u>>)
    /\ RestDrawn(u)
    /\ grid' = [grid EXCEPT ![step + 1] = Rest]
    /\ step' = step + 1
    /\ pc' = "loop"
    /\ UNCHANGED <<gen, cur, prev_note, j, sustain_run, phrases, returned,
                   advances, pnoise>>
    /\ UNCHANGED <<playVars, mainVars>>

\* Lines 142-143: the step is not a rest.
NoRest(u) ==
    /\ pc = "rest"
    /\ Draw(<<u>>)
    /\ ~RestDrawn(u)
    /\ pc' = "select"
    /\ UNCHANGED <<gen, cur, grid, prev_note, step, j, sustain_run, phrases,
                   returned, advances, pnoise>>
    /\ UNCHANGED <<playVars, mainVars>>

\* Lines 149-212: a note is chosen and written.
SelectNote(u) ==
    /\ pc = "select"
    /\ Draw(<<u>>)
    /\ LET note == ChooseNote(u)
       IN  /\ grid' = [grid EXCEPT ![step + 1] = note]
           /\ prev_note' = note
    /\ sustain_run' = 0
    /\ j' = 1
    /\ pc' = "sustain"
    /\ UNCHANGED <<gen, cur, step, phrases, returned, advances, pnoise>>
    /\ UNCHANGED <<playVars, mainVars>>

\* Lines 213-218: the sustain loop ends at the grid's end or a strong beat.
SustainStop ==
    /\ pc = "sustain"
    /\ \/ step + j >= self.total_steps
       \/ IsStrongBeat(step + j)
    /\ step' = step + 1
    /\ pc' = "loop"
    /\ UNCHANGED <<gen, cur, grid, prev_note, j, sustain_run, phrases,
                   returned, advances, pnoise, rng, tape>>
    /\ UNCHANGED <<playVars, mainVars>>

\* Lines 220-226: the note is held one more step.
SustainExtend(u) ==
    /\ pc = "sustain"
    /\ step + j < self.total_steps
    /\ ~IsStrongBeat(step + j)
    /\ Draw(<<u>>)
    /\ Below(u, PSame(sustain_run), 1)
    /\ grid' = [grid EXCEPT ![step + j + 1] = prev_note]
    /\ sustain_run' = sustain_run + 1
    /\ j' = j + 1
    /\ UNCHANGED <<gen, cur, pc, prev_note, step, phrases, returned, advances,
                   pnoise>>
    /\ UNCHANGED <<playVars, mainVars>>

\* Lines 227-228: the draw ends the sustain.
SustainBreak(u) ==
    /\ pc = "sustain"
    /\ step + j < self.total_steps
    /\ ~IsStrongBeat(step + j)
    /\ Draw(<<u>>)
    /\ ~Below(u, PSame(sustain_run), 1)
    /\ step' = step + 1
    /\ pc' = "loop"
    /\ UNCHANGED <<gen, cur, grid, prev_note, j, sustain_run, phrases,
                   returned, advances, pnoise>>
    /\ UNCHANGED <<playVars, mainVars>>

\* Line 230: the grid is returned.
ReturnGrid ==
    /\ pc = "loop"
    /\ step = self.total_steps
    /\ pc' = "done"
    /\ phrases' = [phrases EXCEPT ![cur] = @ + 1]
    /\ returned' = [returned EXCEPT ![cur] = {grid}]
    /\ j' = 1
    /\ sustain_run' = 0
    /\ UNCHANGED <<gen, cur, grid, prev_note, step, advances, pnoise, rng,
                   tape>>
    /\ UNCHANGED <<playVars, mainVars>>

----------------------------------------------------------------------------
\* One generator, its random source unseeded: every sequence of draws.

\* The state after MelodicGenerator(**c, seed=seed), as instance i, in a
\* process whose objects were g0 and whose random module was in rng0, tape0.
Constructed(i, c, seed, u, g0, rng0, tape0) ==
    LET seeded == SeedRandom(rng0, seed)
    IN  /\ StreamAllows(tape0, seeded, <<u>>)
        /\ gen = [g0 EXCEPT ![i] = NewGenerator(c, seed, u)]
        /\ cur = i
        /\ pc = "idle"
        /\ grid = <<>>
        /\ prev_note = c.base_note
        /\ step = 0
        /\ j = 1
        /\ sustain_run = 0
        /\ advances = 0
        /\ rng = Advance(seeded, 1)
        /\ tape = StreamAfter(tape0, seeded, <<u>>)

\* No call of the player, no thread started.
PlayerIdle ==
    /\ play_pc = "idle"
    /\ play_grid = <<>>
    /\ play_i = 0
    /\ play_j = 0
    /\ play_dur = 0
    /\ events = <<>>
    /\ sounding = {}

ThreadsIdle ==
    /\ melody_queue = <<>>
    /\ stop_event = FALSE
    /\ gen_pc = "idle"
    /\ gen_phrase = <<>>
    /\ player_pc = "idle"
    /\ main_pc = "idle"

Init ==
    /\ PlayerIdle
    /\ ThreadsIdle
    /\ \E c \in Configs, u \in UValues :
          Constructed("A", c, None, u, [i \in Inst |-> NoGen], Unseeded,
                      [s \in Seeds |-> <<>>])
    /\ phrases = [i \in Inst |-> 0]
    /\ returned = [i \in Inst |-> {}]
    /\ pnoise \in NoiseCurves

Next ==
    \/ BeginPhrase
    \/ IndexError
    \/ \E uf \in UValues, uc \in UValues : ChangeChord(uf, uc)
    \/ KeepChord
    \/ \E u \in UValues : RestStep(u)
    \/ \E u \in UValues : NoRest(u)
    \/ \E u \in UValues : SelectNote(u)
    \/ SustainStop
    \/ \E u \in UValues : SustainExtend(u)
    \/ \E u \in UValues : SustainBreak(u)
    \/ ReturnGrid

Spec == Init /\ [][Next]_vars

----------------------------------------------------------------------------
\* Two runs, one after the other: each constructs a generator and generates
\* one phrase.  The first run is seeded; the outputs of a seed's stream are
\* fixed once revealed.

\* Outputs of the random generator followed in the two-run model.
DetUValues == {0, 99}

DetConfigs ==
    {c \in Configs : /\ c.mode = "major" /\ c.rest_prob = 5
                     /\ c.total_steps = MaxSteps - 1 /\ c.max_step_jump = 2}

\* MelodicGenerator(**c, seed=seed) for the second run, as instance i.
Construct(i, c, seed, u) ==
    /\ pc \in {"idle", "done", "crashed"}
    /\ gen[i] = NoGen
    /\ LET seeded == SeedRandom(rng, seed)
       IN  /\ StreamAllows(tape, seeded, <<u>>)
           /\ rng' = Advance(seeded, 1)
           /\ tape' = StreamAfter(tape, seeded, <<u>>)
    /\ gen' = [gen EXCEPT ![i] = NewGenerator(c, seed, u)]
    /\ cur' = i
    /\ pc' = "idle"
    /\ grid' = <<>>
    /\ prev_note' = c.base_note
    /\ step' = 0
    /\ j' = 1
    /\ sustain_run' = 0
    /\ UNCHANGED <<phrases, returned, advances, pnoise>>
    /\ UNCHANGED <<playVars, mainVars>>

DetInit ==
    /\ PlayerIdle
    /\ ThreadsIdle
    /\ \E c \in DetConfigs, seed \in Seeds, u \in DetUValues :
          Constructed("A", c, seed, u, [i \in Inst |-> NoGen], Unseeded,
                      [s \in Seeds |-> <<>>])
    /\ phrases = [i \in Inst |-> 0]
    /\ returned = [i \in Inst |-> {}]
    /\ pnoise \in NoiseCurves

\* Each run generates one phrase.
DetNext ==
    \/ phrases[cur] = 0 /\ BeginPhrase
    \/ IndexError
    \/ \E uf \in DetUValues, uc \in DetUValues : ChangeChord(uf, uc)
    \/ KeepChord
    \/ \E u \in DetUValues : RestStep(u)
    \/ \E u \in DetUValues : NoRest(u)
    \/ \E u \in DetUValues : SelectNote(u)
    \/ SustainStop
    \/ \E u \in DetUValues : SustainExtend(u)
    \/ \E u \in DetUValues : SustainBreak(u)
    \/ ReturnGrid
    \/ \E c \in DetConfigs, u \in DetUValues :
          pc \in {"done", "crashed"} /\ Construct("B", c, gen["A"].seed, u)

SpecDet == DetInit /\ [][DetNext]_vars

----------------------------------------------------------------------------
\* Properties of generate_phrase_grid (checked under Spec).

Returned == pc = "done"

\* Cell k of the grid (1-based) is step k - 1 of the phrase.
StrongCell(k) == IsStrongBeat(k - 1)

InModeScale(p) ==
    /\ self.base_note - 24 <= p /\ p <= self.base_note + 24
    /\ ((p - self.base_note) % 12) \in
          (IF self.mode = "major" THEN {0, 2, 4, 5, 7, 9, 11}
                                  ELSE {0, 2, 3, 5, 7, 8, 10})

NonRestCells == {k \in DOMAIN grid : grid[k] # Rest}

\* C1 (as claimed): in a returned grid no cell on a strong beat repeats the
\* pitch of the cell before it: grid[i] = grid[i-1] # -1 implies that i is
\* not a strong-beat step.
C1_NoRepeatOnStrongBeat ==
    Returned =>
        \A k \in 2..Len(grid) :
            (grid[k] = grid[k - 1] /\ grid[k] # Rest) => ~StrongCell(k)

\* C2 (as claimed): with rest_prob = 1.0 every cell of a returned grid is
\* the rest sentinel, on strong beats as well as weak beats.
C2_AllRests ==
    (Returned /\ self.rest_prob = 100) =>
        \A k \in DOMAIN grid : grid[k] = Rest

\* C2 (amended): with rest_prob = 1.0 every weak-beat cell of a returned
\* grid is the rest sentinel; a strong-beat cell may hold a pitch.
C2_WeakBeatsAllRests ==
    (Returned /\ self.rest_prob = 100) =>
        \A k \in DOMAIN grid : ~StrongCell(k) => grid[k] = Rest

\* A returned grid of four steps under rest_prob = 1.0 with a pitch on a
\* strong beat.
C2_Witness ==
    /\ Returned /\ self.rest_prob = 100 /\ Len(grid) = 4
    /\ \E k \in DOMAIN grid : StrongCell(k) /\ grid[k] # Rest

\* C3: at every step of every phrase, each non-rest cell of the grid holds a
\* pitch within 24 semitones of base_note whose degree relative to base_note
\* is in the mode's interval set.
C3_CellsInGlobalScale ==
    pc \in {"loop", "rest", "select", "sustain", "done"} =>
        \A k \in NonRestCells : InModeScale(grid[k])

\* A returned grid with a pitch chosen from the fallback pool {prev}.
C3_Witness ==
    /\ Returned /\ self.max_step_jump < 0 /\ NonRestCells # {}

\* C4: with max_step_jump >= 0, a chosen pitch lies within max_step_jump of
\* prev_note, the pool it is chosen from is not empty, a rest leaves
\* prev_note alone, prev_note is base_note before the first choice, and with
\* max_step_jump = 0 all non-rest cells of a returned grid hold one pitch.
C4_StepWithinJump ==
    /\ [][(pc = "select" /\ pc' = "sustain" /\ self.max_step_jump >= 0) =>
            /\ Abs(prev_note' - prev_note) <= self.max_step_jump
            /\ grid'[step + 1] = prev_note'
            /\ Len(Candidates) > 0]_vars
    /\ [][(pc = "rest" /\ pc' = "loop") => prev_note' = prev_note]_vars
    /\ [][(pc \in {"idle", "done"} /\ pc' = "loop") =>
            prev_note' = self.base_note]_vars
    /\ []((Returned /\ self.max_step_jump = 0) =>
            \A k \in NonRestCells, m \in NonRestCells : grid[k] = grid[m])

\* A returned grid under max_step_jump = 0 with two non-rest cells.
C4_Witness ==
    /\ Returned /\ self.max_step_jump = 0 /\ Cardinality(NonRestCells) >= 2

TableEdges ==
    {<<"tonic", "tonic">>, <<"tonic", "subdominant">>, <<"tonic", "dominant">>,
     <<"subdominant", "subdominant">>, <<"subdominant", "dominant">>,
     <<"subdominant", "tonic">>,
     <<"dominant", "tonic">>, <<"dominant", "subdominant">>}

ChordBank(f) ==
    CASE f = "tonic" -> {"C", "Am", "Em"}
      [] f = "subdominant" -> {"F", "Dm"}
      [] f = "dominant" -> {"G", "G7", "Bdim"}

\* C5: the Function is tonic until the first advance, changes only by an
\* advance, every advance takes an edge of the transition table (never
\* dominant to dominant), and the current chord is always in the bank of the
\* current Function, across generate_phrase_grid calls.
C5_ChordTransitionsValid ==
    /\ [](/\ self.current_chord \in ChordBank(self.current_function)
          /\ advances = 0 => self.current_function = "tonic")
    /\ [][IF advances' # advances
          THEN <<self.current_function, self'.current_function>> \in TableEdges
          ELSE self'.current_function = self.current_function]_vars

\* The second call's advance has left the generator on the dominant.
C5_Witness ==
    /\ advances = 2 /\ phrases[cur] = 1 /\ self.current_function = "dominant"

\* C7: a returned grid has total_steps cells, each the rest sentinel or an
\* integer pitch.
C7_GridLengthAndCells ==
    Returned =>
        /\ returned[cur] = {grid}
        /\ Len(grid) = self.total_steps
        /\ \A k \in 1..self.total_steps :
              grid[k] = Rest \/ (grid[k] \in Int /\ grid[k] >= 0)

\* A returned grid of full length holding both a rest and a pitch.
C7_Witness ==
    /\ Returned /\ Len(grid) = MaxSteps
    /\ NonRestCells # {} /\ NonRestCells # DOMAIN grid

----------------------------------------------------------------------------
\* Properties of two seeded runs (checked under SpecDet).

ConfigOf(g) ==
    [mode |-> g.mode, base_note |-> g.base_note, total_steps |-> g.total_steps,
     steps_per_bar |-> g.steps_per_bar,
     max_span_semitones |-> g.max_span_semitones,
     max_step_jump |-> g.max_step_jump, sustain_probs |-> g.sustain_probs,
     rest_prob |-> g.rest_prob, trend_strength |-> g.trend_strength,
     chord_change_every |-> g.chord_change_every]

BothReturned ==
    /\ gen["A"] # NoGen /\ gen["B"] # NoGen
    /\ returned["A"] # {} /\ returned["B"] # {}

\* C6: two runs that construct a generator with the same seed (not None) and
\* the same configuration and generate one phrase return the same grid.
C6_SameSeedSameGrid ==
    (/\ BothReturned
     /\ gen["A"].seed # None /\ gen["A"].seed = gen["B"].seed
     /\ ConfigOf(gen["A"]) = ConfigOf(gen["B"])) =>
        returned["A"] = returned["B"]

\* Both runs, same seed and configuration, returned a grid holding a pitch
\* and a rest, the chord having changed in each.
C6_Witness ==
    /\ BothReturned
    /\ gen["A"].seed # None /\ gen["A"].seed = gen["B"].seed
    /\ ConfigOf(gen["A"]) = ConfigOf(gen["B"])
    /\ \E g \in returned["B"] :
          /\ \E k \in DOMAIN g : g[k] # Rest
          /\ \E k \in DOMAIN g : g[k] = Rest
    /\ advances = 2

----------------------------------------------------------------------------
\* player.py: play_phrase_from_grid.  Durations are in units of step_duration.

\* Longest grid played.
MaxGridLen == 4

PlayPitches == {Rest, 60, 62}

PlayGrids == UNION {[1..n -> PlayPitches] : n \in 0..MaxGridLen}

pedal_on == <<"control_64", 127>>
pedal_off == <<"control_64", 0>>

\* Lines 40-43: the index after the run of note that starts at index i
\* (0-based), found as the inner while loop finds it.
RECURSIVE ScanRun(_, _, _)
ScanRun(g, note, jj) ==
    IF jj < Len(g) /\ g[jj + 1] = note THEN ScanRun(g, note, jj + 1) ELSE jj

RunEnd_StopsAfterTwo(g, i) ==
    IF i + 1 < Len(g) /\ g[i + 2] = g[i + 1] THEN i + 2 ELSE i + 1

RunEnd(g, i) == ScanRun(g, g[i + 1], i + 1)

\* No generator is constructed (the player and the threads are followed
\* without one).
GeneratorAbsent ==
    /\ gen = [i \in Inst |-> NoGen]
    /\ cur = "A"
    /\ pc = "idle"
    /\ grid = <<>>
    /\ prev_note = 0
    /\ step = 0
    /\ j = 1
    /\ sustain_run = 0
    /\ phrases = [i \in Inst |-> 0]
    /\ returned = [i \in Inst |-> {}]
    /\ advances = 0
    /\ pnoise = [b \in 0..((MaxSteps \div 2) - 1) |-> 0]
    /\ rng = Unseeded
    /\ tape = [sd \in Seeds |-> <<>>]

\* Lines 23-25: the call starts, the pedal goes down.
PlayBegin ==
    /\ play_pc = "call"
    /\ play_i' = 0
    /\ events' = <<pedal_on>>
    /\ play_pc' = "loop"
    /\ UNCHANGED <<play_grid, play_j, play_dur, sounding>>
    /\ UNCHANGED <<genVars, rngVars>>

\* Lines 30-36: a rest lifts the pedal, waits one step and presses it again.
PlayRest ==
    /\ play_pc = "loop"
    /\ play_i < Len(play_grid)
    /\ play_grid[play_i + 1] = Rest
    /\ events' = events \o <<pedal_off, <<"sleep", 1>>, pedal_on>>
    /\ play_i' = play_i + 1
    /\ UNCHANGED <<play_pc, play_grid, play_j, play_dur, sounding>>
    /\ UNCHANGED <<genVars, rngVars>>

\* Lines 39-46: the run is measured and the note switched on.
PlayNoteOn ==
    /\ play_pc = "loop"
    /\ play_i < Len(play_grid)
    /\ play_grid[play_i + 1] # Rest
    /\ play_j' = RunEnd(play_grid, play_i)
    /\ play_dur' = play_j' - play_i
    /\ events' = Append(events, <<"note_on", play_grid[play_i + 1]>>)
    /\ sounding' = sounding \cup {play_grid[play_i + 1]}
    /\ play_pc' = "hold"
    /\ UNCHANGED <<play_grid, play_i>>
    /\ UNCHANGED <<genVars, rngVars>>

\* Lines 47-50: the note is held for dur and switched off.
PlayNoteOff ==
    /\ play_pc = "hold"
    /\ events' = events \o <<<<"sleep", play_dur>>,
                             <<"note_off", play_grid[play_i + 1]>>>>
    /\ sounding' = sounding \ {play_grid[play_i + 1]}
    /\ play_i' = play_j
    /\ play_pc' = "loop"
    /\ UNCHANGED <<play_grid, play_j, play_dur>>
    /\ UNCHANGED <<genVars, rngVars>>

\* Line 27: the loop ends and the call returns.
PlayReturn ==
    /\ play_pc = "loop"
    /\ play_i >= Len(play_grid)
    /\ play_pc' = "returned"
    /\ UNCHANGED <<play_grid, play_i, play_j, play_dur, events, sounding>>
    /\ UNCHANGED <<genVars, rngVars>>

\* One call of play_phrase_from_grid on any grid.
PlayInit ==
    /\ play_pc = "call"
    /\ play_grid \in PlayGrids
    /\ play_i = 0
    /\ play_j = 0
    /\ play_dur = 0
    /\ events = <<>>
    /\ sounding = {}
    /\ ThreadsIdle
    /\ GeneratorAbsent

PlayNext ==
    \/ PlayBegin /\ UNCHANGED mainVars
    \/ PlayRest /\ UNCHANGED mainVars
    \/ PlayNoteOn /\ UNCHANGED mainVars
    \/ PlayNoteOff /\ UNCHANGED mainVars
    \/ PlayReturn /\ UNCHANGED mainVars

SpecPlay == PlayInit /\ [][PlayNext]_vars

----------------------------------------------------------------------------
\* Properties of play_phrase_from_grid (checked under SpecPlay).

\* Cell k (1-based) starts a maximal run of one pitch.
StartsRun(g, k) == g[k] # Rest /\ (k = 1 \/ g[k - 1] # g[k])

\* The length of the maximal run that starts at cell k.
RunLength(g, k) ==
    CHOOSE n \in 1..(Len(g) - k + 1) :
        /\ \A m \in k..(k + n - 1) : g[m] = g[k]
        /\ (k + n > Len(g) \/ g[k + n] # g[k])

CellEvents(g, k) ==
    IF g[k] = Rest THEN <<pedal_off, <<"sleep", 1>>, pedal_on>>
    ELSE IF StartsRun(g, k)
         THEN <<<<"note_on", g[k]>>, <<"sleep", RunLength(g, k)>>,
                <<"note_off", g[k]>>>>
         ELSE <<>>

RECURSIVE EventsFrom(_, _)
EventsFrom(g, k) ==
    IF k > Len(g) THEN <<>> ELSE CellEvents(g, k) \o EventsFrom(g, k + 1)

RECURSIVE SleepTotal(_)
SleepTotal(ev) ==
    IF ev = <<>> THEN 0
    ELSE (IF Head(ev)[1] = "sleep" THEN Head(ev)[2] ELSE 0) + SleepTotal(Tail(ev))

\* C10: the call sends pedal-on, then in grid order one note-on, hold of
\* run_length steps and note-off per maximal run of one non-rest pitch, and
\* pedal-off, one step of waiting and pedal-on per rest cell; at most one note
\* sounds at any time, none at the return; the waits sum to len(grid).
C10_OneNotePerRun ==
    /\ Cardinality(sounding) <= 1
    /\ play_pc = "returned" =>
          /\ events = <<pedal_on>> \o EventsFrom(play_grid, 1)
          /\ SleepTotal(events) = Len(play_grid)
          /\ sounding = {}

\* The call has returned from a grid with a run of three, a rest and a
\* single note.
C10_Witness ==
    /\ play_pc = "returned"
    /\ play_grid = <<60, 60, 60, Rest>> \/ play_grid = <<62, Rest, 60, 60>>
    /\ Len(events) > 1

----------------------------------------------------------------------------
\* main.py: generator_thread, player_thread and the main thread.

PHRASE_BUFFER_LIMIT == 3

\* The phrases generator.generate_phrase returns, for the threads.
MainGrids == {<<60, 60>>, <<Rest, 62>>}

\* The process runs: the main thread has not left the module.
ProcessAlive == main_pc \in {"running", "join_gen", "join_play"}

\* Line 29: melody_queue.qsize() < PHRASE_BUFFER_LIMIT
HasRoom_UpToLimit == Len(melody_queue) <= PHRASE_BUFFER_LIMIT

HasRoom == Len(melody_queue) < PHRASE_BUFFER_LIMIT

\* Line 28: while not stop_event.is_set()
GenTest ==
    /\ gen_pc = "test"
    /\ gen_pc' = IF stop_event THEN "returned" ELSE "size"
    /\ UNCHANGED <<melody_queue, stop_event, gen_phrase, player_pc, main_pc,
                   playVars>>
    /\ UNCHANGED <<genVars, rngVars>>

\* Line 29 (and 33-34): the queue is tested.
GenCheckRoom ==
    /\ gen_pc = "size"
    /\ gen_pc' = IF HasRoom THEN "generate" ELSE "sleep"
    /\ UNCHANGED <<melody_queue, stop_event, gen_phrase, player_pc, main_pc,
                   playVars>>
    /\ UNCHANGED <<genVars, rngVars>>

\* Line 30: a phrase is generated.
GenGenerate ==
    /\ gen_pc = "generate"
    /\ gen_phrase' \in MainGrids
    /\ gen_pc' = "put"
    /\ UNCHANGED <<melody_queue, stop_event, player_pc, main_pc, playVars>>
    /\ UNCHANGED <<genVars, rngVars>>

\* Lines 31-32: put on the unbounded queue.Queue() never blocks.
GenPut ==
    /\ gen_pc = "put"
    /\ melody_queue' = Append(melody_queue, gen_phrase)
    /\ gen_pc' = "test"
    /\ UNCHANGED <<stop_event, gen_phrase, player_pc, main_pc, playVars>>
    /\ UNCHANGED <<genVars, rngVars>>

\* Line 34: time.sleep(1) ends.
GenSleep ==
    /\ gen_pc = "sleep"
    /\ gen_pc' = "test"
    /\ UNCHANGED <<melody_queue, stop_event, gen_phrase, player_pc, main_pc,
                   playVars>>
    /\ UNCHANGED <<genVars, rngVars>>

generator_thread ==
    \/ ProcessAlive /\ GenTest
    \/ ProcessAlive /\ GenCheckRoom
    \/ ProcessAlive /\ GenGenerate
    \/ ProcessAlive /\ GenPut
    \/ ProcessAlive /\ GenSleep

\* Lines 38-39: time.sleep(3) ends.
PlayerSleep3 ==
    /\ player_pc = "sleep3"
    /\ player_pc' = "test"
    /\ UNCHANGED <<melody_queue, stop_event, gen_pc, gen_phrase, main_pc,
                   playVars>>
    /\ UNCHANGED <<genVars, rngVars>>

\* Line 41: while not stop_event.is_set()
PlayerTest ==
    /\ player_pc = "test"
    /\ player_pc' = IF stop_event THEN "returned" ELSE "empty"
    /\ UNCHANGED <<melody_queue, stop_event, gen_pc, gen_phrase, main_pc,
                   playVars>>
    /\ UNCHANGED <<genVars, rngVars>>

\* Line 42: melody_queue.empty()
PlayerCheckEmpty ==
    /\ player_pc = "empty"
    /\ player_pc' = IF melody_queue = <<>> THEN "wait" ELSE "get"
    /\ UNCHANGED <<melody_queue, stop_event, gen_pc, gen_phrase, main_pc,
                   playVars>>
    /\ UNCHANGED <<genVars, rngVars>>

\* Lines 43-45: time.sleep(1) ends, continue.
PlayerWait ==
    /\ player_pc = "wait"
    /\ player_pc' = "test"
    /\ UNCHANGED <<melody_queue, stop_event, gen_pc, gen_phrase, main_pc,
                   playVars>>
    /\ UNCHANGED <<genVars, rngVars>>

\* Lines 47-49: get (which blocks while the queue is empty), then the call of
\* play_phrase_from_grid.
PlayerGet ==
    /\ player_pc = "get"
    /\ melody_queue # <<>>
    /\ play_grid' = Head(melody_queue)
    /\ melody_queue' = Tail(melody_queue)
    /\ play_pc' = "call"
    /\ events' = <<>>
    /\ player_pc' = "play"
    /\ UNCHANGED <<stop_event, gen_pc, gen_phrase, main_pc, play_i, play_j,
                   play_dur, sounding>>
    /\ UNCHANGED <<genVars, rngVars>>

\* Line 49: play_phrase_from_grid runs.
PlayerPlay ==
    \/ player_pc = "play" /\ PlayBegin /\ UNCHANGED mainVars
    \/ player_pc = "play" /\ PlayRest /\ UNCHANGED mainVars
    \/ player_pc = "play" /\ PlayNoteOn /\ UNCHANGED mainVars
    \/ player_pc = "play" /\ PlayNoteOff /\ UNCHANGED mainVars
    \/ player_pc = "play" /\ PlayReturn /\ UNCHANGED mainVars

\* Line 50: it has returned.
PlayerPlayed ==
    /\ player_pc = "play"
    /\ play_pc = "returned"
    /\ play_pc' = "idle"
    /\ player_pc' = "test"
    /\ UNCHANGED <<melody_queue, stop_event, gen_pc, gen_phrase, main_pc,
                   play_grid, play_i, play_j, play_dur, events, sounding>>
    /\ UNCHANGED <<genVars, rngVars>>

player_thread ==
    \/ ProcessAlive /\ PlayerSleep3
    \/ ProcessAlive /\ PlayerTest
    \/ ProcessAlive /\ PlayerCheckEmpty
    \/ ProcessAlive /\ PlayerWait
    \/ ProcessAlive /\ PlayerGet
    \/ ProcessAlive /\ PlayerPlay
    \/ ProcessAlive /\ PlayerPlayed

\* Lines 64-66: KeyboardInterrupt in the main thread sets stop_event.
KeyboardInterrupt ==
    /\ main_pc = "running"
    /\ stop_event' = TRUE
    /\ main_pc' = "join_gen"
    /\ UNCHANGED <<melody_queue, gen_pc, gen_phrase, player_pc, playVars>>
    /\ UNCHANGED <<genVars, rngVars>>

\* The places where a thread can stay longer than a join's timeout of two
\* seconds. The generator's longest wait is time.sleep(1) (line 34); the
\* player waits three seconds at line 39, and a phrase of 64 steps of 0.25 s
\* plays for 16 s at line 49.
GenOutlastsJoin == {}

PlayerOutlastsJoin == {"sleep3", "play"}

\* Line 67: gen_thread.join(timeout=2) returns when the thread has ended or
\* the timeout has passed.
JoinGen ==
    /\ main_pc = "join_gen"
    /\ gen_pc = "returned" \/ gen_pc \in GenOutlastsJoin
    /\ main_pc' = "join_play"
    /\ UNCHANGED <<melody_queue, stop_event, gen_pc, gen_phrase, player_pc,
                   playVars>>
    /\ UNCHANGED <<genVars, rngVars>>

\* Lines 68-70: play_thread.join(timeout=2) returns when the thread has ended
\* or the timeout has passed; the output is closed and the main thread ends,
\* and with it the process and its daemon threads (lines 55-56).
JoinPlayAndExit ==
    /\ main_pc = "join_play"
    /\ player_pc = "returned" \/ player_pc \in PlayerOutlastsJoin
    /\ main_pc' = "exited"
    /\ UNCHANGED <<melody_queue, stop_event, gen_pc, gen_phrase, player_pc,
                   playVars>>
    /\ UNCHANGED <<genVars, rngVars>>

main_thread ==
    \/ KeyboardInterrupt
    \/ JoinGen
    \/ JoinPlayAndExit

\* Lines 55-59: both threads are started.
MainInit ==
    /\ melody_queue = <<>>
    /\ stop_event = FALSE
    /\ gen_pc = "test"
    /\ gen_phrase = <<>>
    /\ player_pc = "sleep3"
    /\ main_pc = "running"
    /\ PlayerIdle
    /\ GeneratorAbsent

MainNext ==
    \/ generator_thread
    \/ player_thread
    \/ main_thread

SpecMain == MainInit /\ [][MainNext]_vars

\* Every thread that can run does run; the interrupt may never come.
FairMain ==
    /\ SpecMain
    /\ WF_vars(generator_thread)
    /\ WF_vars(player_thread)
    /\ WF_vars(JoinGen \/ JoinPlayAndExit)

----------------------------------------------------------------------------
\* Properties of the threads.

\* C8: under any interleaving the queue holds at most PHRASE_BUFFER_LIMIT
\* phrases; the producer generates and puts only while fewer are queued, and
\* the consumer gets only from a non-empty queue.
C8_QueueWithinLimit ==
    /\ Len(melody_queue) <= 3
    /\ gen_pc \in {"generate", "put"} => Len(melody_queue) < 3
    /\ player_pc = "get" => melody_queue # <<>>

\* The queue is full, the producer waits and the consumer is playing.
C8_Witness ==
    /\ Len(melody_queue) = 3 /\ gen_pc = "sleep" /\ player_pc = "play"

\* C9 (as claimed): once stop_event is set, both threads eventually return.
C9_WorkersReturnAfterStop ==
    stop_event ~> (gen_pc = "returned" /\ player_pc = "returned")

----------------------------------------------------------------------------
\* The sustain run and the outer loop (checked under Spec).

\* Cell k (1-based) holds a pitch that a sustain run wrote and that the outer
\* loop has not yet passed.  The grid starts as rests, the outer loop writes
\* only its own cell and a sustain run only cells after it, so a pitch in a
\* cell the outer loop has not written was put there by a sustain run.
SustainFilled(k) ==
    /\ pc \in {"loop", "rest", "select", "sustain"}
    /\ k \in 1..Len(grid)
    /\ grid[k] # Rest
    /\ k > step + 1 \/ (k = step + 1 /\ pc # "sustain")

\* C11 (as claimed): a cell that a sustain run filled is skipped by the outer
\* loop: the loop neither draws a rest for it nor selects a note for it, and
\* the cell keeps its pitch.
C11_SustainFilledCellSkipped ==
    [][\A k \in 1..MaxSteps :
          SustainFilled(k) =>
              /\ grid'[k] = grid[k]
              /\ ~(pc' \in {"rest", "select"} /\ step' + 1 = k)]_vars

----------------------------------------------------------------------------
\* Two generators alive at once.  A reference run constructs "A" with a seed
\* and generates one phrase.  A second run constructs "B" with the same seed
\* and configuration, then constructs "C" (and perhaps has it generate a
\* phrase) before "B" generates its phrase.

\* Short phrases whose chord changes on every step, and one configuration
\* whose call fails at line 130.
ShareConfigs ==
    {[c EXCEPT !.total_steps = MaxSteps - 2, !.chord_change_every = 1] :
        c \in DetConfigs}
    \cup {c \in DetConfigs : c.steps_per_bar = 2}

ShareInit ==
    /\ PlayerIdle
    /\ ThreadsIdle
    /\ \E c \in ShareConfigs, seed \in Seeds, u \in DetUValues :
          Constructed("A", c, seed, u, [i \in Inst |-> NoGen], Unseeded,
                      [s \in Seeds |-> <<>>])
    /\ phrases = [i \in Inst |-> 0]
    /\ returned = [i \in Inst |-> {}]
    /\ pnoise \in NoiseCurves

\* The seed arguments given to "C".
OtherSeeds == Seeds \cup {None}

\* The caller turns to instance i: its next call is i.generate_phrase_grid().
CallOn(i) ==
    /\ pc \in {"idle", "done", "crashed"}
    /\ gen[i] # NoGen
    /\ cur # i
    /\ cur' = i
    /\ pc' = "idle"
    /\ UNCHANGED <<gen, grid, prev_note, step, j, sustain_run, phrases,
                   returned, advances, pnoise, rng, tape>>
    /\ UNCHANGED <<playVars, mainVars>>

ShareNext ==
    \/ phrases[cur] = 0 /\ BeginPhrase
    \/ IndexError
    \/ \E uf \in DetUValues, uc \in DetUValues : ChangeChord(uf, uc)
    \/ KeepChord
    \/ \E u \in DetUValues : RestStep(u)
    \/ \E u \in DetUValues : NoRest(u)
    \/ \E u \in DetUValues : SelectNote(u)
    \/ SustainStop
    \/ \E u \in DetUValues : SustainExtend(u)
    \/ \E u \in DetUValues : SustainBreak(u)
    \/ ReturnGrid
    \/ \E u \in DetUValues :
          /\ cur = "A" /\ pc \in {"done", "crashed"}
          /\ Construct("B", ConfigOf(gen["A"]), gen["A"].seed, u)
    \/ \E seed \in OtherSeeds, u \in DetUValues :
          /\ cur = "B" /\ pc = "idle" /\ phrases["B"] = 0
          /\ Construct("C", ConfigOf(gen["A"]), seed, u)
    \/ cur = "C" /\ CallOn("B")

SpecShare == ShareInit /\ [][ShareNext]_vars

\* C12 (as claimed): constructing or running another instance between an
\* instance's construction and its generate_phrase_grid call does not change
\* the grid it returns: "B", constructed like "A", returns the grid "A"
\* returned although "C" was constructed (and perhaps run) in between.
C12_OtherInstanceLeavesGrid ==
    (/\ BothReturned /\ gen["C"] # NoGen
     /\ gen["A"].seed # None /\ gen["A"].seed = gen["B"].seed
     /\ ConfigOf(gen["A"]) = ConfigOf(gen["B"])) =>
        returned["A"] = returned["B"]

----------------------------------------------------------------------------
\* The bar index (checked under Spec).

\* C13 (as claimed): at every step the outer loop reaches, the bar index
\* step // steps_per_bar is an index of noise_scaled, whose length is
\* max(1, total_steps // steps_per_bar), so the call never fails there.
C13_BarIndexInRange ==
    /\ pc # "crashed"
    /\ (pc \in {"loop", "rest", "select", "sustain"} /\ step < self.total_steps)
          => step \div self.steps_per_bar < Bars

====
